---- MODULE Spec2Model ----
(***************************************************************************)
(* cortex.dataset: the Dataset aggregate (src/cortex/dataset/__init__.py). *)
(* A Dataset maps view names to Views, is saved to and loaded from an HDF5 *)
(* package, and can pack subject resources of the database into it.        *)
(*                                                                         *)
(* Every operation is synchronous and single-threaded, so each public      *)
(* method is one action; an exception is an outcome of the action, with    *)
(* the state left as the code leaves it when the exception propagates.     *)
(*                                                                         *)
(* braindata.py, views.py and database.py are not part of the sources at   *)
(* hand: BrainData, View, _write_hdf, from_hdf and db are modelled from    *)
(* the specification and marked so in the model map.                       *)
(***************************************************************************)
EXTENDS Integers, Sequences, FiniteSets, TLC

\* ------------------------------------------------------------- bounds
MaxDs == 3      \* Dataset objects that can be alive at once
MaxArgs == 2    \* keyword arguments of one Dataset(...) / append(...) call
MaxCalls == 2   \* public calls in one run of Spec
MaxOps == 3     \* public calls in one run of SpecPackage, after the constructor

None == "None"

\* ------------------------------------------------------------- names
\* A name is a sequence of tokens, so that prefix+name is concatenation and
\* h5py's iteration order (by name) is the lexicographic order below.  The
\* tokens are prefix-free, which makes token order and character order agree.
TokOrder == <<"a", "b", "c", "data", "h1", "h2", "h3", "p_", "s1", "s2", "subjects", "views">>

TokRank(t) == CHOOSE i \in 1..Len(TokOrder) : TokOrder[i] = t

RECURSIVE LexLess(_, _)
LexLess(x, y) ==
    IF x = <<>> THEN y # <<>>
    ELSE IF y = <<>> THEN FALSE
    ELSE IF Head(x) = Head(y) THEN LexLess(Tail(x), Tail(y))
    ELSE TokRank(Head(x)) < TokRank(Head(y))

\* The names of a group in the order h5py iterates them.
MinName(S) == CHOOSE x \in S : \A y \in S \ {x} : LexLess(x, y)

RECURSIVE H5Order(_)
H5From(m, S) == <<m>> \o H5Order(S \ {m})

H5Order(S) == IF S = {} THEN <<>> ELSE H5From(MinName(S), S)

ViewNames == {<<"a">>, <<"b">>}
Prefixes == {<<"p_">>}
Files == {"f1", "g0", "g1"}

\* from_file line 86: the top-level names that are never stray entries.
Reserved == {<<"data">>, <<"subjects">>, <<"views">>}

\* ------------------------------------------------- BrainData and View
\* A BrainData object: oid is the object's identity (a sequence of tokens), the
\* other fields its value.
BD(oid, subject, xfmname, kind, val, data) ==
    [oid |-> oid, subject |-> subject, xfmname |-> xfmname,
     mask |-> [kind |-> kind, val |-> val], data |-> data]

B1 == BD(<<"B1">>, "S1", "X1", "name", "M1", "d1")
B2 == BD(<<"B2">>, "S1", "X1", "name", "M1", "d1")    \* another object, same value as B1
B3 == BD(<<"B3">>, "S2", "X2", "none", None, "d2")
B4 == BD(<<"B4">>, "S1", "X1", "inline", "m4", "d3")

\* The identity rule: subject, transform, mask and contents.
BDKey(b) == [subject |-> b.subject, xfmname |-> b.xfmname, mask |-> b.mask, data |-> b.data]

\* isinstance(data._mask, str)
MaskIsStr(b) == b.mask.kind = "name"

\* bd.name: the stable identifier of a BrainData, a function of its value.
HashOf == [h1 |-> BDKey(B1), h2 |-> BDKey(B3), h3 |-> BDKey(B4)]

BDName(b) == <<CHOOSE h \in DOMAIN HashOf : HashOf[h] = BDKey(b)>>

View(oid, priority, data) == [oid |-> oid, priority |-> priority, data |-> data]

V1 == View(<<"V1">>, 5, <<B1>>)
V2 == View(<<"V2">>, 1, <<B3>>)
V3 == View(<<"V3">>, 5, <<B2>>)
V4 == View(<<"V4">>, 3, <<B1, B4, B2>>)
NoView == View(<<>>, 0, <<>>)

Views == {V1, V2, V3, V4}

\* ------------------------------------------------------ dict (views)
\* self.views is a dict: a sequence of [name, view] in insertion order, the
\* names distinct.
KeysOf(vs) == {vs[i].name : i \in 1..Len(vs)}

HasKey(vs, n) == n \in KeysOf(vs)

IndexOf(vs, n) == CHOOSE i \in 1..Len(vs) : vs[i].name = n

Lookup(vs, n) == vs[IndexOf(vs, n)].view

\* A variant of DictSet in which the first write of a name wins.
DictSetKeepFirst(vs, n, v) ==
    IF HasKey(vs, n) THEN vs ELSE Append(vs, [name |-> n, view |-> v])

\* d[name] = view: a present key keeps its place, a new key goes last.
DictSet(vs, n, v) ==
    IF HasKey(vs, n)
    THEN [vs EXCEPT ![IndexOf(vs, n)] = [name |-> n, view |-> v]]
    ELSE Append(vs, [name |-> n, view |-> v])

\* d.update(other)
RECURSIVE DictUpdate(_, _)
DictUpdate(vs, other) ==
    IF other = <<>> THEN vs
    ELSE DictUpdate(DictSet(vs, Head(other).name, Head(other).view), Tail(other))

\* A variant of InsertByPriority that is not stable: an item goes before the
\* items of its own priority.
RECURSIVE InsertBeforeTies(_, _)
InsertBeforeTies(sorted, e) ==
    IF sorted = <<>> THEN <<e>>
    ELSE IF e.view.priority <= Head(sorted).view.priority THEN <<e>> \o sorted
    ELSE <<Head(sorted)>> \o InsertBeforeTies(Tail(sorted), e)

\* sorted(items, key=priority): a stable insertion sort.
RECURSIVE InsertByPriority(_, _)
InsertByPriority(sorted, e) ==
    IF sorted = <<>> THEN <<e>>
    ELSE IF e.view.priority < Head(sorted).view.priority THEN <<e>> \o sorted
    ELSE <<Head(sorted)>> \o InsertByPriority(Tail(sorted), e)

RECURSIVE SortedByPriority(_)
SortedByPriority(vs) ==
    IF vs = <<>> THEN <<>>
    ELSE InsertByPriority(SortedByPriority(SubSeq(vs, 1, Len(vs) - 1)), vs[Len(vs)])

\* Dataset.__iter__
Iter(vs) == SortedByPriority(vs)

\* Dataset.__len__
DsLen(vs) == Len(vs)

\* ------------------------------------------------------------ state
VARIABLES
    ds,       \* the Dataset objects: [state, views, h5] by object number
    files,    \* the content of each package file
    auxfile,  \* db.auxfile: NoDs (None), or the Dataset bound as auxiliary source
    last,     \* the last public call: what was called, with what, and how it ended
    nops      \* public calls made so far

vars == <<ds, files, auxfile, last, nops>>

DsIds == 1..MaxDs

\* No Dataset object: None where a Dataset may stand.
NoDs == 0

FreeDs == [state |-> "free", views |-> <<>>, h5 |-> None]

Live(table) == {d \in DsIds : table[d].state = "live"}

IsFree(table) == {d \in DsIds : table[d].state = "free"}

NewId(table) == CHOOSE d \in IsFree(table) : \A e \in IsFree(table) : d <= e

\* --------------------------------------------------- package files
EmptyMap == [x \in {} |-> TRUE]

MapSet(m, k, v) == [x \in DOMAIN m \cup {k} |-> IF x = k THEN v ELSE m[x]]

\* h5py.File(filename) of a path that holds nothing yet.
EmptyFile ==
    [top |-> EmptyMap, hasViews |-> FALSE, views |-> EmptyMap,
     hasData |-> FALSE, data |-> EmptyMap, subjs |-> {}, xfms |-> {}, masks |-> {}]

\* A node holding an array: meta says whether it carries the attributes
\* BrainData.from_hdf needs (subject, ...).
Node(meta, b) == [meta |-> meta, key |-> BDKey(b)]

\* The files at the start: f1 holds nothing; g0 and g1 are packages that
\* Dataset.save did not write, with both groups: g0 with nothing else, g1 with a
\* stray entry with metadata and one without, and two /data entries no view
\* refers to, one of them without metadata.
InitFiles ==
    [f \in Files |->
        CASE f = "g0" -> [EmptyFile EXCEPT !.hasViews = TRUE, !.hasData = TRUE]
          [] f = "g1" -> [EmptyFile EXCEPT !.hasViews = TRUE, !.hasData = TRUE,
                            !.top = (<<"s1">> :> Node(TRUE, B3)) @@ (<<"s2">> :> Node(FALSE, B4)),
                            !.data = (<<"h2">> :> Node(TRUE, B3)) @@ (<<"h3">> :> Node(FALSE, B4))]
          [] OTHER -> EmptyFile]

\* ------------------------------------------------- the module's names
\* The names src/cortex/dataset/__init__.py binds at module level (its imports,
\* lines 18-26, and its definitions).  A call of any other global name raises
\* NameError when it is evaluated.
ModuleGlobals ==
    {"tempfile", "np", "h5py", "db", "Transform", "BrainData", "VertexData",
     "VolumeData", "_hdf_write", "View", "Volume", "Vertex", "RGBVolume",
     "RGBVertex", "Dataset", "normalize", "_pack_subjs", "_pack_xfms", "_pack_masks"}

NameBound(n) == n \in ModuleGlobals

\* --------------------------------------------------------- results
\* What a call evaluates to: err is "" or the exception that propagates; env is
\* the Dataset table and db.auxfile as the call leaves them.
Ok(kind, view, dsid, views, env) ==
    [err |-> "", kind |-> kind, view |-> view, dsid |-> dsid, views |-> views, env |-> env]

Raise(err, env) ==
    [err |-> err, kind |-> None, view |-> NoView, dsid |-> 0, views |-> <<>>, env |-> env]

\* BrainData.from_hdf(ds, node): the object read back from a node.
FromHdf(name, node) ==
    [oid |-> <<"loaded">> \o name, subject |-> node.key.subject,
     xfmname |-> node.key.xfmname, mask |-> node.key.mask, data |-> node.key.data]

\* DataView(...): the global name is looked up before its arguments are
\* evaluated.  Bound, it wraps the BrainData in a new View of default priority.
DataView(oid, bds, env) ==
    IF ~NameBound("DataView") THEN Raise("NameError", env)
    ELSE Ok("View", View(oid, 5, bds), 0, <<>>, env)

\* -------------------------------------------------------- from_file
\* The three loops of from_file.  acc is [err, views, loaded]; a loop stops at
\* the first exception that is not caught.
LoadAcc(err, views, loaded) == [err |-> err, views |-> views, loaded |-> loaded]

\* Lines 88-91 and 102-105: ds.views[name] = DataView(BrainData.from_hdf(ds, node)),
\* KeyError (no metadata) caught and the entry skipped.
StoreEntry(acc, name, node, dv) ==
    IF dv.err # "" THEN LoadAcc(dv.err, acc.views, acc.loaded)
    ELSE IF ~node.meta THEN acc
    ELSE LoadAcc("", DictSet(acc.views, name, dv.view), acc.loaded)

LoadEntry(acc, name, node, env) ==
    StoreEntry(acc, name, node, DataView(<<"loaded">> \o name, <<FromHdf(name, node)>>, env))

\* Lines 85-91: the stray top-level entries.
RECURSIVE StrayLoop(_, _, _, _)
StrayLoop(f, names, acc, env) ==
    IF names = <<>> \/ acc.err # "" THEN acc
    ELSE StrayLoop(f, Tail(names),
                   IF Head(names) \in Reserved THEN acc
                   ELSE LoadEntry(acc, Head(names), f.top[Head(names)], env),
                   env)

\* DataView.from_hdf(ds, node): the View of a /views entry, its BrainData read
\* from the /data entries it refers to (one object per entry).
ViewFromHdf(f, name, node, env) ==
    IF ~NameBound("DataView") THEN Raise("NameError", env)
    ELSE IF \E i \in 1..Len(node.refs) :
                node.refs[i] \notin DOMAIN f.data \/ ~f.data[node.refs[i]].meta
         THEN Raise("KeyError", env)
    ELSE Ok("View",
            View(<<"loaded">> \o name, node.priority,
                 [i \in 1..Len(node.refs) |-> FromHdf(node.refs[i], f.data[node.refs[i]])]),
            NoDs, <<>>, env)

\* Lines 94-97: the views, and the names of the BrainData they use.
StoreView(acc, name, r) ==
    IF r.err # "" THEN LoadAcc(r.err, acc.views, acc.loaded)
    ELSE LoadAcc("", DictSet(acc.views, name, r.view),
                 acc.loaded \cup {BDName(r.view.data[i]) : i \in 1..Len(r.view.data)})

RECURSIVE ViewsLoop(_, _, _, _)
ViewsLoop(f, names, acc, env) ==
    IF names = <<>> \/ acc.err # "" THEN acc
    ELSE ViewsLoop(f, Tail(names),
                   StoreView(acc, Head(names),
                             ViewFromHdf(f, Head(names), f.views[Head(names)], env)),
                   env)

\* Lines 100-105: the data entries no view has used.
RECURSIVE DataLoop(_, _, _, _)
DataLoop(f, names, acc, env) ==
    IF names = <<>> \/ acc.err # "" THEN acc
    ELSE DataLoop(f, Tail(names),
                  IF Head(names) \in acc.loaded THEN acc
                  ELSE LoadEntry(acc, Head(names), f.data[Head(names)], env),
                  env)

\* The names h5.items() yields at the top level: the stray entries and the
\* groups that exist.
TopNames(f) ==
    DOMAIN f.top
      \cup (IF f.hasViews THEN {<<"views">>} ELSE {})
      \cup (IF f.hasData THEN {<<"data">>} ELSE {})
      \cup (IF f.subjs \cup f.xfms \cup f.masks # {} THEN {<<"subjects">>} ELSE {})

\* Line 94: ds.h5['views'] raises KeyError when the file has no such group.
LoadViews(f, acc, env) ==
    IF acc.err # "" THEN acc
    ELSE IF ~f.hasViews THEN LoadAcc("KeyError", acc.views, acc.loaded)
    ELSE ViewsLoop(f, H5Order(DOMAIN f.views), acc, env)

\* Line 100: ds.h5['data'], likewise.
LoadData(f, acc, env) ==
    IF acc.err # "" THEN acc
    ELSE IF ~f.hasData THEN LoadAcc("KeyError", acc.views, acc.loaded)
    ELSE DataLoop(f, H5Order(DOMAIN f.data), acc, env)

\* Lines 84-105, from the first loop to the last.
LoadAll(f, env) ==
    LoadData(f, LoadViews(f, StrayLoop(f, H5Order(TopNames(f)), LoadAcc("", <<>>, {}), env), env), env)

\* Dataset.from_file(filename), lines 76-109.  The new Dataset is bound to
\* db.auxfile at line 82 and db.auxfile is reset at line 107, which an exception
\* of the loops in between does not reach.  A Dataset that only db.auxfile still
\* refers to is "leaked"; rebinding db.auxfile frees it.
SetAux(env, d) ==
    [ds |-> [x \in DsIds |->
                IF x = env.aux /\ env.ds[x].state = "leaked" THEN FreeDs ELSE env.ds[x]],
     aux |-> d]

\* Lines 78-82: ds = cls(); ds.h5 = h5py.File(filename); db.auxfile = ds.
Opened(path, d, env) ==
    SetAux([env EXCEPT !.ds[d] = [state |-> "live", views |-> <<>>, h5 |-> path]], d)

\* Lines 107-109, or the exception on its way out.
Closed(path, d, env, a) ==
    IF a.err # ""
    THEN Raise(a.err, [env EXCEPT !.ds[d] = [state |-> "leaked", views |-> a.views, h5 |-> path]])
    ELSE Ok("Dataset", NoView, d, a.views,
            [ds |-> [env.ds EXCEPT ![d].views = a.views], aux |-> NoDs])

Load(path, d, env) == Closed(path, d, env, LoadAll(files[path], env))

from_file(path, env) == Load(path, NewId(env.ds), Opened(path, NewId(env.ds), env))

\* ------------------------------------------------ normalize and append
\* An input of Dataset(...) / append(...): t is its Python type, the other
\* fields hold what that type carries.
In(t) == [t |-> t, view |-> NoView, ds |-> 0, bd |-> B1, path |-> None, n |-> 0, kw |-> <<>>]

InView(v) == [In("View") EXCEPT !.view = v]
InDs(d) == [In("Dataset") EXCEPT !.ds = d]
InBD(b) == [In("BrainData") EXCEPT !.bd = b]
InDict(kw) == [In("dict") EXCEPT !.kw = kw]
InStr(path) == [In("str") EXCEPT !.path = path]
InTuple(n, b) == [In("tuple") EXCEPT !.n = n, !.bd = b]
InList(n) == [In("list") EXCEPT !.n = n]

Arg(name, val) == [name |-> name, val |-> val]

\* What the loop of append leaves: the views so far, the exception if one
\* propagated, and the environment.
Appended(err, views, env) == [err |-> err, views |-> views, env |-> env]

RECURSIVE normalize(_, _), AppendLoop(_, _, _, _)

\* Dataset(**data) as a value: the Dataset append made, or its exception.
Built(r) ==
    IF r.err # "" THEN Raise(r.err, r.env) ELSE Ok("Dataset", NoView, NoDs, r.views, r.env)

\* DataView(data) of a list: the View class takes three channels.
ListView(n, dv) == IF dv.err = "" /\ n # 3 THEN Raise("TypeError", dv.env) ELSE dv

\* normalize(data), lines 208-225.
normalize(x, env) ==
    CASE x.t = "View" -> Ok("View", x.view, NoDs, <<>>, env)
      [] x.t = "Dataset" -> Ok("Dataset", NoView, x.ds, env.ds[x.ds].views, env)
      [] x.t = "BrainData" -> DataView(<<"new">> \o x.bd.oid, <<x.bd>>, env)
      [] x.t = "dict" -> Built(AppendLoop(NoDs, <<>>, x.kw, env))
      [] x.t = "str" -> from_file(x.path, env)
      [] x.t = "tuple" -> DataView(<<"new">> \o x.bd.oid, <<x.bd>>, env)
      [] x.t = "list" -> ListView(x.n, DataView(<<"new", "rgb">>, <<B1, B4, B2>>, env))
      [] OTHER -> Raise("TypeError", env)

\* The loop of append, lines 36-44, on the views of Dataset self (0: a Dataset
\* under construction, which nothing else refers to yet).
\* Lines 39-44: what one normalized input does to the views.  norm.views of
\* self itself is self's views as they are now.
Stored(self, views, name, norm) ==
    CASE norm.kind = "View" -> DictSet(views, name, norm.view)
      [] norm.kind = "BrainData" -> DictSet(views, name, DataView(<<"new">>, <<>>, norm.env).view)
      [] norm.kind = "Dataset" ->
            DictUpdate(views, IF norm.dsid # NoDs /\ norm.dsid = self THEN views ELSE norm.views)
      [] OTHER -> views

\* A Dataset that from_file made for this call is dropped after the merge.
Dropped(x, norm) ==
    IF x.t = "str" THEN [norm.env EXCEPT !.ds[norm.dsid] = FreeDs] ELSE norm.env

RECURSIVE Merge(_, _, _, _)
Merge(self, views, kw, norm) ==
    IF norm.err # "" THEN Appended(norm.err, views, norm.env)
    ELSE IF norm.kind = "BrainData" /\ ~NameBound("DataView")
         THEN Appended("NameError", views, norm.env)
    ELSE AppendLoop(self, Stored(self, views, Head(kw).name, norm), Tail(kw),
                    Dropped(Head(kw).val, norm))

AppendLoop(self, views, kw, env) ==
    IF kw = <<>> THEN Appended("", views, env)
    ELSE Merge(self, views, kw, normalize(Head(kw).val, env))

\* Whether a call with these arguments may need a new Dataset object.
RECURSIVE Loads(_)
Loads(kw) ==
    IF kw = <<>> THEN FALSE
    ELSE Head(kw).val.t = "str" \/ Loads(Head(kw).val.kw) \/ Loads(Tail(kw))

\* ------------------------------------------------------------ uniques
\* Every BrainData of every view, in iteration order (for name, view in self:
\* for data in view).
RECURSIVE AllData(_)
AllData(items) ==
    IF items = <<>> THEN <<>> ELSE Head(items).view.data \o AllData(Tail(items))

\* Dataset.uniques(), lines 111-118: a set keyed by the BrainData's identity
\* rule, which keeps the first object added of each value.
FirstOfEach(all) ==
    {all[i] : i \in {j \in 1..Len(all) : \A k \in 1..(j - 1) : BDKey(all[k]) # BDKey(all[j])}}

\* A variant of uniques that tells BrainData apart by object, not by value.
uniquesByObject(vs) == {AllData(Iter(vs))[i] : i \in 1..Len(AllData(Iter(vs)))}

uniques(vs) == FirstOfEach(AllData(Iter(vs)))

\* --------------------------------------------------------------- save
\* A variant of ResolveFile that asks for a filename even when the Dataset is
\* bound to a file.
ResolveFileNamedOnly(h5, filename) ==
    IF filename # None THEN [err |-> "", h5 |-> filename]
    ELSE [err |-> "ValueError", h5 |-> None]

\* Lines 121-124: the file save writes to, or the error.
ResolveFile(h5, filename) ==
    IF filename # None THEN [err |-> "", h5 |-> filename]
    ELSE IF h5 = None THEN [err |-> "ValueError", h5 |-> None]
    ELSE [err |-> "", h5 |-> h5]

\* The /data entries of one view, written once per identifier.
RECURSIVE WriteData(_, _)
WriteData(data, bds) ==
    IF bds = <<>> THEN data
    ELSE WriteData(MapSet(data, BDName(Head(bds)), Node(TRUE, Head(bds))), Tail(bds))

\* view._write_hdf(h5, name=name): /views/<name> with the view's priority and
\* the identifiers of its BrainData in order, and their /data entries.
WriteView(f, name, view) ==
    [f EXCEPT !.hasViews = TRUE, !.hasData = TRUE,
              !.views = MapSet(f.views, name,
                               [priority |-> view.priority,
                                refs |-> [i \in 1..Len(view.data) |-> BDName(view.data[i])]]),
              !.data = WriteData(f.data, view.data)]

\* Lines 126-127.
RECURSIVE WriteViews(_, _)
WriteViews(f, items) ==
    IF items = <<>> THEN f
    ELSE WriteViews(WriteView(f, Head(items).name, Head(items).view), Tail(items))

\* Lines 130-140: the keys handed to the packaging helpers.
Range(seq) == {seq[i] : i \in 1..Len(seq)}

DataOf(vs) == Range(AllData(vs))

PackSubjs(vs) == {<<b.subject>> : b \in DataOf(vs)}

PackXfms(vs) == {<<b.subject, b.xfmname>> : b \in DataOf(vs)}

\* A variant of PackMasks that takes the mask of every BrainData, named or not.
PackMasksOfAll(vs) == {<<b.subject, b.xfmname, b.mask.val>> : b \in DataOf(vs)}

PackMasks(vs) == {<<b.subject, b.xfmname, b.mask.val>> : b \in {x \in DataOf(vs) : MaskIsStr(x)}}

\* ------------------------------------------------------------ prepend
\* Lines 202-204: the keyword arguments prepend builds, in iteration order.
Prefixed(items, prefix) ==
    [i \in 1..Len(items) |-> Arg(prefix \o items[i].name, InView(items[i].view))]

\* A variant of PrependArgs that leaves the prefix out.
PrependArgsUnprefixed(vs, prefix) == Prefixed(Iter(vs), <<>>)

PrependArgs(vs, prefix) == Prefixed(Iter(vs), prefix)

\* _pack_subjs, _pack_xfms, _pack_masks (lines 227-253): each writes, for every
\* key, what the database holds for it under /subjects.  The database is outside
\* the program: a helper either completes, or stops with the database's error
\* at a key it cannot find, having written the keys in part.
Helper(fn, keys) == [fn |-> fn, keys |-> keys]

Packed(f, subjs, xfms, masks) ==
    [f EXCEPT !.subjs = @ \cup subjs, !.xfms = @ \cup xfms, !.masks = @ \cup masks]

\* Lines 129-143.
Packing(f, S, X, M, stop, part) ==
        CASE stop = "_pack_subjs" ->
                [err |-> "PackError", file |-> Packed(f, part, {}, {}),
                 helpers |-> <<Helper("_pack_subjs", S)>>]
          [] stop = "_pack_xfms" ->
                [err |-> "PackError", file |-> Packed(f, S, part, {}),
                 helpers |-> <<Helper("_pack_subjs", S), Helper("_pack_xfms", X)>>]
          [] stop = "_pack_masks" ->
                [err |-> "PackError", file |-> Packed(f, S, X, part),
                 helpers |-> <<Helper("_pack_subjs", S), Helper("_pack_xfms", X),
                               Helper("_pack_masks", M)>>]
          [] OTHER ->
                [err |-> "", file |-> Packed(f, S, X, M),
                 helpers |-> <<Helper("_pack_subjs", S), Helper("_pack_xfms", X),
                               Helper("_pack_masks", M)>>]

Pack(f, vs, stop, part) == Packing(f, PackSubjs(vs), PackXfms(vs), PackMasks(vs), stop, part)

\* The keys of the helper that stops, "none" having none.
KeysAt(vs, stop) ==
    CASE stop = "_pack_subjs" -> PackSubjs(vs)
      [] stop = "_pack_xfms" -> PackXfms(vs)
      [] stop = "_pack_masks" -> PackMasks(vs)
      [] OTHER -> {}

Stops == {"none", "_pack_subjs", "_pack_xfms", "_pack_masks"}

\* ------------------------------------------------------------ actions
Env == [ds |-> ds, aux |-> auxfile]

\* The record of a public call: what was called, with what, how it ended
\* (err), the Dataset it was called on (self) and the one it returned (res).
Called(op) ==
    [op |-> op, err |-> "", self |-> NoDs, res |-> NoDs, kw |-> <<>>, prefix |-> <<>>,
     path |-> None, pack |-> FALSE, helpers |-> <<>>]

\* Dataset(**kw), lines 29-33: the object exists for the caller only when
\* append returns.
Construct(kw) ==
    /\ Cardinality(IsFree(ds)) >= (IF Loads(kw) THEN 2 ELSE 1)
    /\ \E r \in {AppendLoop(NoDs, <<>>, kw, Env)} : \E d \in {NewId(r.env.ds)} :
          /\ ds' = IF r.err = ""
                   THEN [r.env.ds EXCEPT ![d] = [state |-> "live", views |-> r.views, h5 |-> None]]
                   ELSE r.env.ds
          /\ auxfile' = r.env.aux
          /\ last' = [Called("construct") EXCEPT !.err = r.err, !.kw = kw,
                         !.res = IF r.err = "" THEN d ELSE NoDs]
    /\ nops' = nops + 1
    /\ UNCHANGED files

\* self.append(**kw), lines 35-46: the views stored before an exception stay.
AppendTo(d, kw) ==
    /\ d \in Live(ds)
    /\ Loads(kw) => IsFree(ds) # {}
    /\ \E r \in {AppendLoop(d, ds[d].views, kw, Env)} :
          /\ ds' = [r.env.ds EXCEPT ![d].views = r.views]
          /\ auxfile' = r.env.aux
          /\ last' = [Called("append") EXCEPT !.err = r.err, !.kw = kw, !.self = d,
                         !.res = IF r.err = "" THEN d ELSE NoDs]
    /\ nops' = nops + 1
    /\ UNCHANGED files

\* self.prepend(prefix), lines 201-206.
Prepend(d, prefix) ==
    /\ d \in Live(ds)
    /\ IsFree(ds) # {}
    /\ \E r \in {AppendLoop(NoDs, <<>>, PrependArgs(ds[d].views, prefix), Env)} :
       \E new \in {NewId(r.env.ds)} :
          /\ ds' = [r.env.ds EXCEPT ![new] = [state |-> "live", views |-> r.views, h5 |-> None]]
          /\ auxfile' = r.env.aux
          /\ last' = [Called("prepend") EXCEPT !.err = r.err, !.self = d, !.res = new,
                         !.prefix = prefix]
    /\ nops' = nops + 1
    /\ UNCHANGED files

\* Dataset.from_file(path), lines 76-109.  self is the Dataset being loaded.
FromFile(path) ==
    /\ IsFree(ds) # {}
    /\ \E r \in {from_file(path, Env)} :
          /\ ds' = r.env.ds
          /\ auxfile' = r.env.aux
          /\ last' = [Called("from_file") EXCEPT !.err = r.err, !.path = path,
                         !.self = NewId(ds), !.res = r.dsid]
    /\ nops' = nops + 1
    /\ UNCHANGED files

\* Lines 126-145, the file resolved: the views are written, then packed.
Written(f, vs, pack, stop, part) ==
    IF pack THEN Pack(WriteViews(f, vs), vs, stop, part)
    ELSE [err |-> "", file |-> WriteViews(f, vs), helpers |-> <<>>]

\* self.save(filename, pack), lines 120-145.
Save(d, filename, pack, stop, part) ==
    /\ d \in Live(ds)
    /\ IF pack /\ stop # "none"
       THEN part \subseteq KeysAt(ds[d].views, stop) /\ part # KeysAt(ds[d].views, stop)
       ELSE stop = "none" /\ part = {}
    /\ \E rf \in {ResolveFile(ds[d].h5, filename)} :
          IF rf.err # ""
          THEN /\ last' = [Called("save") EXCEPT !.self = d, !.path = filename, !.pack = pack,
                                                !.err = rf.err]
               /\ UNCHANGED <<ds, files>>
          ELSE \E p \in {Written(files[rf.h5], ds[d].views, pack, stop, part)} :
               /\ ds' = [ds EXCEPT ![d].h5 = rf.h5]
               /\ files' = [files EXCEPT ![rf.h5] = p.file]
               /\ last' = [Called("save") EXCEPT !.self = d, !.path = filename, !.pack = pack,
                                                 !.err = p.err, !.helpers = p.helpers]
    /\ nops' = nops + 1
    /\ UNCHANGED auxfile

\* ------------------------------------------------------ specifications
\* The state after Dataset(**kw): the new Dataset is object 1.
Constructed(kw) ==
    /\ ds = [d \in DsIds |->
                IF d = 1
                THEN [state |-> "live", h5 |-> None,
                      views |-> AppendLoop(NoDs, <<>>, kw, [ds |-> [x \in DsIds |-> FreeDs],
                                                            aux |-> NoDs]).views]
                ELSE FreeDs]
    /\ files = InitFiles
    /\ auxfile = NoDs
    /\ last = [Called("construct") EXCEPT !.kw = kw, !.res = 1]
    /\ nops = 0

\* Spec starts from Dataset(c=V1).
Init == Constructed(<<Arg(<<"c">>, InView(V1))>>)

DistinctNames(kw) == \A i, j \in 1..Len(kw) : i # j => kw[i].name # kw[j].name

\* The keyword arguments of n names with values of S: a call cannot repeat a
\* keyword, so there are none of more names than there are.
KwargsOf(S, n) ==
    IF n > Cardinality(ViewNames) THEN {}
    ELSE {kw \in [1..n -> {Arg(name, val) : name \in ViewNames, val \in S}] : DistinctNames(kw)}

ViewInputs == {InView(v) : v \in Views}

\* Spec: Datasets built and extended in memory from inputs of every type
\* normalize tells apart.
PairInputs == {InView(V1), InView(V2), InView(V3), In("int")}

CoreInputs == ViewInputs \cup {InDs(d) : d \in Live(ds)} \cup {In("int")}

OtherInputs ==
    {InBD(B3), InTuple(3, B4), InTuple(2, B3), InList(3), InList(2),
     InStr("g0"), InStr("g1"),
     InDict(<<Arg(<<"b">>, InView(V2))>>), InDict(<<Arg(<<"a">>, In("int"))>>)}

\* No argument, one argument of any type, up to MaxArgs Views and integers, or
\* a View under the name the first Dataset starts with.
Kwargs ==
    KwargsOf(CoreInputs \cup OtherInputs, 1) \cup UNION {KwargsOf(PairInputs, n) : n \in 0..MaxArgs}
        \cup {<<Arg(<<"c">>, InView(V2))>>}

Next ==
    \/ nops < MaxCalls /\ \E kw \in Kwargs : Construct(kw)
    \/ nops < MaxCalls /\ \E d \in Live(ds), kw \in Kwargs : AppendTo(d, kw)
    \/ nops < MaxCalls /\ \E d \in Live(ds), prefix \in Prefixes : Prepend(d, prefix)

Spec == Init /\ [][Next]_vars

\* SpecPackage: a Dataset of Views, saved to and loaded from the package files.
ViewKwargs == UNION {KwargsOf(ViewInputs, n) : n \in 0..MaxArgs}

InitPackage == \E kw \in ViewKwargs : Constructed(kw)

SaveTargets == {None, "f1"}

NextPackage ==
    \/ nops < MaxOps /\ \E path \in Files : FromFile(path)
    \/ nops < MaxOps /\ \E d \in Live(ds), filename \in SaveTargets, pack \in BOOLEAN, stop \in Stops :
          \E part \in SUBSET KeysAt(ds[d].views, stop) : Save(d, filename, pack, stop, part)

SpecPackage == InitPackage /\ [][NextPackage]_vars

\* ------------------------------------------------------------- claims
\* C1: db.auxfile is never left bound once from_file has ended, whether it
\* returned or raised: every call is one step, so db.auxfile is None in every
\* state.
C1_AuxfileRestored == auxfile = NoDs

\* The sequence it holds every item of vs once, by ascending priority, the items
\* of one priority in the order vs holds them.
IterOrdered(vs, it) ==
    /\ Len(it) = Len(vs)
    /\ \A i \in 1..Len(vs) : \E j \in 1..Len(it) : it[j] = vs[i]
    /\ \A j, k \in 1..Len(it) : j < k =>
          /\ it[j].view.priority <= it[k].view.priority
          /\ it[j].view.priority = it[k].view.priority =>
                IndexOf(vs, it[j].name) < IndexOf(vs, it[k].name)

\* C2: iterating a Dataset yields each (name, view) once, by ascending
\* priority, views of equal priority in the order their names were inserted.
C2_IterByPriority == \A d \in Live(ds) : IterOrdered(ds[d].views, Iter(ds[d].views))

HasTie(vs) == \E i, j \in 1..Len(vs) : i # j /\ vs[i].view.priority = vs[j].view.priority

\* A Dataset of three views, two of one priority, that iterates in another
\* order than it was filled.
C2_TieAndReorder ==
    \E d \in Live(ds) : Len(ds[d].views) = 3 /\ HasTie(ds[d].views) /\ Iter(ds[d].views) # ds[d].views

\* The identifiers of the /data entries of f that hold a BrainData of vs.
EntriesOf(f, vs) == {id \in DOMAIN f.data : \E b \in DataOf(vs) : f.data[id].key = BDKey(b)}

\* U holds each BrainData value of vs once, f holds one /data entry for each,
\* and each view of vs refers to the entries of its BrainData.
Deduplicated(vs, U, f) ==
    /\ U \subseteq DataOf(vs)
    /\ \A b \in DataOf(vs) : Cardinality({u \in U : BDKey(u) = BDKey(b)}) = 1
    /\ \A b \in DataOf(vs) : Cardinality({id \in DOMAIN f.data : f.data[id].key = BDKey(b)}) = 1
    /\ \A i \in 1..Len(vs) :
          /\ vs[i].name \in DOMAIN f.views
          /\ Len(f.views[vs[i].name].refs) = Len(vs[i].view.data)
          /\ \A k \in 1..Len(vs[i].view.data) :
                /\ f.views[vs[i].name].refs[k] \in DOMAIN f.data
                /\ f.data[f.views[vs[i].name].refs[k]].key = BDKey(vs[i].view.data[k])
    /\ Cardinality(EntriesOf(f, vs)) = Cardinality(U)

\* C3: after save, uniques() holds each BrainData value once, the package
\* holds one /data entry for it, every view of it refers to that entry, and the
\* entries of the Dataset are as many as uniques() has elements.
C3_DataWrittenOnce ==
    (last.op = "save" /\ last.err = "") =>
        Deduplicated(ds[last.self].views, uniques(ds[last.self].views), files[ds[last.self].h5])

SharesData(vs) ==
    \E i, j \in 1..Len(vs) : i # j /\ \E b \in Range(vs[i].view.data), c \in Range(vs[j].view.data) :
        BDKey(b) = BDKey(c) /\ b.oid # c.oid

\* A save of a Dataset with two names whose views hold two BrainData objects of
\* one value.
C3_SharedDataSaved == last.op = "save" /\ last.err = "" /\ SharesData(ds[last.self].views)

\* The same names, the same order of iteration, the same BrainData values.
SameViews(vs, ws) ==
    /\ Len(ws) = Len(vs)
    /\ \A i \in 1..Len(vs) :
          /\ Iter(ws)[i].name = Iter(vs)[i].name
          /\ Len(Iter(ws)[i].view.data) = Len(Iter(vs)[i].view.data)
          /\ \A k \in 1..Len(Iter(vs)[i].view.data) :
                BDKey(Iter(ws)[i].view.data[k]) = BDKey(Iter(vs)[i].view.data[k])

\* C4: from_file of the file a Dataset was just saved to returns a Dataset of
\* the same view names, iteration order and BrainData contents.
C4_RoundTrip ==
    [][(last.op = "save" /\ last.err = "" /\ last'.op = "from_file"
            /\ last'.path = ds[last.self].h5)
          => (last'.err = "" /\ SameViews(ds[last.self].views, ds'[last'.res].views))]_vars

\* A save without filename: an unbound Dataset raises ValueError and nothing
\* changes; a bound one does not raise it, stays bound, and its views are in
\* its file, no other file touched.
SaveResolved(pre, post, fpre, fpost, call) ==
    IF pre[call.self].h5 = None
    THEN call.err = "ValueError" /\ post = pre /\ fpost = fpre
    ELSE /\ call.err # "ValueError"
         /\ post = pre
         /\ \A f \in Files \ {pre[call.self].h5} : fpost[f] = fpre[f]
         /\ \A i \in 1..Len(pre[call.self].views) :
               /\ pre[call.self].views[i].name \in DOMAIN fpost[pre[call.self].h5].views
               /\ fpost[pre[call.self].h5].views[pre[call.self].views[i].name].priority
                     = pre[call.self].views[i].view.priority

\* C5: save() without filename fails with ValueError on a Dataset bound to no
\* file, leaving views, handle and files as they were, and writes to the bound
\* file otherwise.
C5_UnboundSave ==
    [][(last'.op = "save" /\ last'.path = None) => SaveResolved(ds, ds', files, files', last')]_vars

\* An unbound Dataset with views whose save() raised ValueError.
C5_UnboundSaveRaised ==
    /\ last.op = "save" /\ last.path = None /\ last.err = "ValueError"
    /\ ds[last.self].h5 = None /\ ds[last.self].views # <<>>

\* The identifiers the views of f refer to.
Consumed(f) == UNION {Range(f.views[n].refs) : n \in DOMAIN f.views}

\* The view names a tolerant load of f ends with.
LoadableNames(f) ==
    {n \in DOMAIN f.top \ Reserved : f.top[n].meta}
        \cup DOMAIN f.views
        \cup {id \in DOMAIN f.data \ Consumed(f) : f.data[id].meta}

\* A package with a stray entry, or a /data entry no view refers to, that has
\* no metadata.
LacksMetadata(f) ==
    /\ f.hasViews /\ f.hasData
    /\ \/ \E n \in DOMAIN f.top \ Reserved : ~f.top[n].meta
       \/ \E id \in DOMAIN f.data \ Consumed(f) : ~f.data[id].meta

\* C6: from_file of a package with entries that lack metadata succeeds, and
\* the Dataset's names are the well-formed stray entries, the views and the
\* well-formed /data entries no view refers to.
C6_TolerantLoad ==
    (last.op = "from_file" /\ LacksMetadata(files[last.path])) =>
        (last.err = "" /\ KeysOf(ds[last.res].views) = LoadableNames(files[last.path]))

\* What prepend leaves: a new Dataset with each view of self under prefix+name,
\* the View objects themselves, and self as it was.
Relabelled(pre, post, call) ==
    /\ call.err = ""
    /\ call.res # call.self
    /\ pre[call.res].state # "live" /\ post[call.res].state = "live"
    /\ Len(post[call.res].views) = Len(pre[call.self].views)
    /\ KeysOf(post[call.res].views) = {call.prefix \o n : n \in KeysOf(pre[call.self].views)}
    /\ \A n \in KeysOf(pre[call.self].views) :
          Lookup(post[call.res].views, call.prefix \o n) = Lookup(pre[call.self].views, n)
    /\ post[call.self] = pre[call.self]

\* C7: prepend(prefix) returns a new Dataset holding, for every name of self,
\* the same View object under prefix+name, and leaves self unchanged.
C7_PrependRelabels == [][last'.op = "prepend" => Relabelled(ds, ds', last')]_vars

\* A prepend of a Dataset of two views or more.
C7_Prepended == last.op = "prepend" /\ Len(ds[last.res].views) >= 2

\* The writes one named input of append makes, in order: a View under its
\* name, the views of a Dataset under their own names (none for self itself),
\* the Views of a mapping under their names.
WritesOf(arg, pre, self) ==
    CASE arg.val.t = "View" -> <<[name |-> arg.name, view |-> arg.val.view]>>
      [] arg.val.t = "Dataset" -> IF arg.val.ds = self THEN <<>> ELSE pre[arg.val.ds].views
      [] OTHER -> [i \in 1..Len(arg.val.kw) |->
                      [name |-> arg.val.kw[i].name, view |-> arg.val.kw[i].val.view]]

RECURSIVE AllWrites(_, _, _)
AllWrites(kw, pre, self) ==
    IF kw = <<>> THEN <<>> ELSE WritesOf(Head(kw), pre, self) \o AllWrites(Tail(kw), pre, self)

LastWrite(ws, n) == ws[CHOOSE i \in 1..Len(ws) : ws[i].name = n /\ \A j \in (i + 1)..Len(ws) : ws[j].name # n].view

\* What a call of append that returns leaves, ws being its writes.
LastWriteWins(before, after, ws) ==
    /\ KeysOf(after) = KeysOf(before) \cup KeysOf(ws)
    /\ Len(after) = Cardinality(KeysOf(after))
    /\ \A n \in KeysOf(ws) : Lookup(after, n) = LastWrite(ws, n)
    /\ \A n \in KeysOf(before) \ KeysOf(ws) : Lookup(after, n) = Lookup(before, n)

OfViewsAndDatasets(kw) == \A i \in 1..Len(kw) : kw[i].val.t \in {"View", "Dataset", "dict"}

\* C8: append returns self; a View is stored under its name, the views of a
\* Dataset under their own names, the last write of a name wins, the other
\* names keep their views, and the names stay distinct.
C8_AppendLastWriteWins ==
    [][(last'.op = "append" /\ last'.err = "" /\ OfViewsAndDatasets(last'.kw)) =>
          /\ last'.res = last'.self
          /\ \A d \in DsIds \ {last'.self} : ds'[d] = ds[d]
          /\ LastWriteWins(ds[last'.self].views, ds'[last'.self].views,
                           AllWrites(last'.kw, ds, last'.self))]_vars

\* An append of two names of which the second was in the Dataset before: it
\* kept its place, ahead of the first.
C8_Overwritten ==
    /\ last.op = "append" /\ last.err = "" /\ Len(last.kw) = 2
    /\ last.kw[1].val.t = "View" /\ last.kw[2].val.t = "View"
    /\ IndexOf(ds[last.self].views, last.kw[2].name) < IndexOf(ds[last.self].views, last.kw[1].name)

Unsupported(x) == x.t = "int" \/ (x.t = "list" /\ x.n # 3)

\* C9: normalize returns only for the supported shapes and raises TypeError
\* for an integer or a list of another length than 3, and append then stores
\* no view.
C9_NormalizeTypeError ==
    [][(last'.op \in {"append", "construct"} /\ Len(last'.kw) = 1) =>
          /\ last'.err = "" => ~Unsupported(last'.kw[1].val)
          /\ Unsupported(last'.kw[1].val) => last'.err = "TypeError"
          /\ (last'.op = "append" /\ last'.err # "") =>
                ds'[last'.self].views = ds[last'.self].views]_vars

\* The keys the helpers are to be called with.
SubjectsOf(vs) == {<<AllData(vs)[i].subject>> : i \in 1..Len(AllData(vs))}

TransformsOf(vs) == {<<AllData(vs)[i].subject, AllData(vs)[i].xfmname>> : i \in 1..Len(AllData(vs))}

NamedMasksOf(vs) ==
    {<<AllData(vs)[i].subject, AllData(vs)[i].xfmname, AllData(vs)[i].mask.val>> :
        i \in {j \in 1..Len(AllData(vs)) : AllData(vs)[j].mask.kind = "name"}}

\* The helpers called are the first of: subjects, transforms, named masks.
HelpersCalled(hs, vs) ==
    /\ Len(hs) \in 1..3
    /\ hs[1] = Helper("_pack_subjs", SubjectsOf(vs))
    /\ Len(hs) >= 2 => hs[2] = Helper("_pack_xfms", TransformsOf(vs))
    /\ Len(hs) >= 3 => hs[3] = Helper("_pack_masks", NamedMasksOf(vs))

\* A save that found its file: the views are in the file; with pack the
\* helpers are called in turn, all three if none fails; without, none is and
\* /subjects is as it was.
PackedAsAsked(vs, fpre, fpost, call) ==
    /\ \A n \in KeysOf(vs) : n \in DOMAIN fpost.views
    /\ IF call.pack
       THEN /\ HelpersCalled(call.helpers, vs)
            /\ call.err = "" =>
                  /\ Len(call.helpers) = 3
                  /\ fpost.subjs = fpre.subjs \cup SubjectsOf(vs)
                  /\ fpost.xfms = fpre.xfms \cup TransformsOf(vs)
                  /\ fpost.masks = fpre.masks \cup NamedMasksOf(vs)
       ELSE /\ call.helpers = <<>>
            /\ fpost.subjs = fpre.subjs /\ fpost.xfms = fpre.xfms /\ fpost.masks = fpre.masks

\* C10: save(pack=True) writes every view, then calls the helpers with the
\* subjects, the (subject, transform) pairs and the (subject, transform, mask)
\* triples of the masks given by name; save(pack=False) calls none and writes
\* nothing under /subjects.
C10_PackKeys ==
    [][(last'.op = "save" /\ last'.err # "ValueError") =>
          PackedAsAsked(ds[last'.self].views, files[ds'[last'.self].h5],
                        files'[ds'[last'.self].h5], last')]_vars

\* A save with pack of a Dataset with a mask given by name and one that is not.
C10_PackedMixedMasks ==
    /\ last.op = "save" /\ last.pack /\ last.err = ""
    /\ \E b, c \in DataOf(ds[last.self].views) : MaskIsStr(b) /\ ~MaskIsStr(c)

====
